---- MODULE Spec2Model ----
(***************************************************************************)
(* mini-redis (src/main.py): the wire codec (ProtocolHandler), the command *)
(* dispatcher and store (Server) and the client stub (Client).             *)
(*                                                                         *)
(* The source is Python 3 code (it decodes the bytes it reads and encodes  *)
(* the text it writes), so its operations are modelled with Python 3's     *)
(* semantics: bytes and str are different types, '%s' % <bytes> formats    *)
(* the repr b'...', and BytesIO.write(<str>) raises TypeError.             *)
(*                                                                         *)
(* A byte stream is a sequence of one-character strings.  The characters   *)
(* are ASCII, for which utf-8 encoding and decoding change nothing, but    *)
(* for "0xFF", which stands for the byte 0xFF that no utf-8 text holds.    *)
(***************************************************************************)
EXTENDS Integers, Sequences, FiniteSets, TLC

VARIABLES
    capacity,  \* the max_clients given to Server(): the size of its pool
    kv,        \* Server._kv: the store, a Python dict
    pool,      \* Server._pool: the sessions whose greenlet is live
    pc,        \* where each session's connection_handler stands
    data,      \* connection_handler's local `data`, the decoded request
    resp,      \* connection_handler's local `resp`, the reply to write
    inbuf,     \* bytes sent by the client that the server has not read
    peerEof,   \* the client has shut its sending side
    outbuf,    \* reply bytes delivered to a waiting Client and not yet decoded by it
    closedBy,  \* the exception that ended a session ("" while it runs)
    nread,     \* number of requests decoded on each connection
    nwritten,  \* number of replies written on each connection
    written,   \* history: the last value written for each key and not removed since
    client,    \* the state of Client.execute on each connection
    cin,       \* codec harness: the value or the bytes under test
    cwire,     \* codec harness: what _write produced
    cout       \* codec harness: what handle_request decoded

vars == <<capacity, kv, pool, pc, data, resp, inbuf, peerEof, outbuf, closedBy,
          nread, nwritten, written, client, cin, cwire, cout>>

-----------------------------------------------------------------------------
(* Python values.  k is the type, v the content.                           *)

Null == [k |-> "null", v |-> <<>>]                 \* None
Integer(n) == [k |-> "int", v |-> n]                   \* int
Str(s) == [k |-> "str", v |-> s]                   \* str
Bytes(s) == [k |-> "bytes", v |-> s]               \* bytes
List(s) == [k |-> "list", v |-> s]                 \* list
Tuple(s) == [k |-> "tuple", v |-> s]               \* tuple
Dict(s) == [k |-> "dict", v |-> s]                 \* dict: <<key, value>> pairs in insertion order
Error(message) == [k |-> "err", v |-> message]     \* the namedtuple Error

CR == "\r"
LF == "\n"
CRLF == <<CR, LF>>

Hashable(x) == x.k \in {"null", "int", "str", "bytes"}

(* dict operations on a sequence of <<key, value>> pairs                   *)
DictHas(d, key) == \E i \in 1..Len(d) : d[i][1] = key
DictIndex(d, key) == CHOOSE i \in 1..Len(d) : d[i][1] = key
DictGet(d, key) == IF DictHas(d, key) THEN d[DictIndex(d, key)][2] ELSE Null
DictSet(d, key, value) ==
    IF DictHas(d, key) THEN [d EXCEPT ![DictIndex(d, key)] = <<key, value>>]
    ELSE Append(d, <<key, value>>)
DictDel(d, key) ==
    LET i == DictIndex(d, key)
    IN  SubSeq(d, 1, i - 1) \o SubSeq(d, i + 1, Len(d))

-----------------------------------------------------------------------------
(* Text <-> number conversions used by the codec.                          *)

DigitChars == <<"0", "1", "2", "3", "4", "5", "6", "7", "8", "9">>
IsDigit(c) == \E i \in 1..10 : DigitChars[i] = c
DigitVal(c) == (CHOOSE i \in 1..10 : DigitChars[i] = c) - 1

RECURSIVE NatToStr(_)
NatToStr(n) ==
    IF n < 10 THEN <<DigitChars[n + 1]>>
    ELSE NatToStr(n \div 10) \o <<DigitChars[(n % 10) + 1]>>

(* '%s' % n for an int n                                                   *)
IntToStr(n) == IF n < 0 THEN <<"-">> \o NatToStr(-n) ELSE NatToStr(n)

RECURSIVE DigitsToNat(_)
DigitsToNat(s) ==
    IF s = <<>> THEN 0
    ELSE 10 * DigitsToNat(SubSeq(s, 1, Len(s) - 1)) + DigitVal(s[Len(s)])

(* str.rstrip('\r\n'): drops every trailing CR and LF                      *)
RECURSIVE RStripCRLF(_)
RStripCRLF(s) ==
    IF s # <<>> /\ s[Len(s)] \in {CR, LF} THEN RStripCRLF(SubSeq(s, 1, Len(s) - 1))
    ELSE s

Whitespace == {" ", CR, LF}
RECURSIVE StripWS(_)
StripWS(s) ==
    IF s # <<>> /\ s[1] \in Whitespace THEN StripWS(Tail(s))
    ELSE IF s # <<>> /\ s[Len(s)] \in Whitespace THEN StripWS(SubSeq(s, 1, Len(s) - 1))
    ELSE s

(* int(text): surrounding whitespace, an optional sign, then digits;       *)
(* anything else raises ValueError (ok = FALSE).                           *)
ParseInt(text) ==
    LET t == StripWS(text)
        signed == t # <<>> /\ t[1] \in {"+", "-"}
        digits == IF signed THEN Tail(t) ELSE t
        good == digits # <<>> /\ \A i \in 1..Len(digits) : IsDigit(digits[i])
    IN  [ok |-> good,
         n |-> IF ~good THEN 0
               ELSE IF signed /\ t[1] = "-" THEN 0 - DigitsToNat(digits)
               ELSE DigitsToNat(digits)]

-----------------------------------------------------------------------------
(* ProtocolHandler: decoding.  A decode of the bytes `buf` of a stream     *)
(* gives st, "ok" or the exception raised; v, the value; rest, the bytes   *)
(* left unread; eof, whether a read ran into the end of `buf` (on a        *)
(* connection still open that read blocks until more bytes arrive).        *)

Ok(v, rest, eof) == [st |-> "ok", v |-> v, rest |-> rest, eof |-> eof]
Raise(exc, rest, eof) == [st |-> exc, v |-> Null, rest |-> rest, eof |-> eof]

(* socket_file.readline(): up to and including the first LF, or all that   *)
(* is left when the stream ends first.                                     *)
ReadLine(buf) ==
    IF \E i \in 1..Len(buf) : buf[i] = LF
    THEN LET i == CHOOSE j \in 1..Len(buf) :
                      buf[j] = LF /\ \A m \in 1..(j - 1) : buf[m] # LF
         IN  [line |-> SubSeq(buf, 1, i), rest |-> SubSeq(buf, i + 1, Len(buf)), eof |-> FALSE]
    ELSE [line |-> buf, rest |-> <<>>, eof |-> TRUE]

(* socket_file.read(n): n bytes, fewer when the stream ends first, and     *)
(* everything up to the end of the stream when n is negative.              *)
Read(buf, n) ==
    IF n < 0 \/ n > Len(buf) THEN [bytes |-> buf, rest |-> <<>>, eof |-> TRUE]
    ELSE [bytes |-> SubSeq(buf, 1, n), rest |-> SubSeq(buf, n + 1, Len(buf)), eof |-> FALSE]

(* int(socket_file.readline().decode('utf-8').rstrip('\r\n'))             *)
ReadNumber(buf) ==
    LET l == ReadLine(buf)
        p == ParseInt(RStripCRLF(l.line))
    IN  [ok |-> p.ok, n |-> p.n, rest |-> l.rest, eof |-> l.eof]

(* bytes.decode('utf-8') raises UnicodeDecodeError on a byte that is no    *)
(* utf-8; where int() follows, the ValueError reported covers it           *)
(* (UnicodeDecodeError is a ValueError).                                   *)
InvalidUtf8 == {"0xFF"}
Decodes(bytes) == \A i \in 1..Len(bytes) : bytes[i] \notin InvalidUtf8

handle_simple_string(buf) ==
    LET l == ReadLine(buf)
    IN  IF ~Decodes(l.line) THEN Raise("UnicodeDecodeError", l.rest, l.eof)
        ELSE Ok(Str(RStripCRLF(l.line)), l.rest, l.eof)

handle_error_message(buf) ==
    LET l == ReadLine(buf)
    IN  IF ~Decodes(l.line) THEN Raise("UnicodeDecodeError", l.rest, l.eof)
        ELSE Ok(Str(RStripCRLF(l.line)), l.rest, l.eof)

handle_integer(buf) ==
    LET c == ReadNumber(buf)
    IN  IF c.ok THEN Ok(Integer(c.n), c.rest, c.eof) ELSE Raise("ValueError", c.rest, c.eof)

handle_binary(buf) ==
    LET c == ReadNumber(buf)
        r == Read(c.rest, c.n + 2)
    IN  IF ~c.ok THEN Raise("ValueError", c.rest, c.eof)
        ELSE IF c.n = -1 THEN Ok(Null, c.rest, c.eof)
        ELSE Ok(Bytes(SubSeq(r.bytes, 1, Len(r.bytes) - 2)), r.rest, c.eof \/ r.eof)

(* dict(zip(elements[::2], elements[1::2])): a later pair overwrites an    *)
(* earlier one with an equal key; an unhashable key raises TypeError.      *)
RECURSIVE ZipDict(_, _)
ZipDict(elements, d) ==
    IF Len(elements) < 2 THEN [ok |-> TRUE, d |-> d]
    ELSE IF ~Hashable(elements[1]) THEN [ok |-> FALSE, d |-> d]
    ELSE ZipDict(SubSeq(elements, 3, Len(elements)), DictSet(d, elements[1], elements[2]))

RECURSIVE handle_request(_)
RECURSIVE ReadElements(_, _)

(* [self.handle_request(socket_file) for _ in range(n)]                    *)
ReadElements(buf, n) ==
    IF n <= 0 THEN Ok(<<>>, buf, FALSE)
    ELSE LET h == handle_request(buf)
         IN  IF h.st # "ok" THEN h
             ELSE LET t == ReadElements(h.rest, n - 1)
                  IN  IF t.st # "ok" THEN [t EXCEPT !.eof = @ \/ h.eof]
                      ELSE Ok(<<h.v>> \o t.v, t.rest, h.eof \/ t.eof)

handle_array(buf) ==
    LET c == ReadNumber(buf)
        e == ReadElements(c.rest, c.n)
    IN  IF ~c.ok THEN Raise("ValueError", c.rest, c.eof)
        ELSE IF e.st # "ok" THEN [e EXCEPT !.eof = @ \/ c.eof]
        ELSE Ok(List(e.v), e.rest, c.eof \/ e.eof)

handle_dictionary(buf) ==
    LET c == ReadNumber(buf)
        e == ReadElements(c.rest, c.n * 2)
        z == ZipDict(e.v, <<>>)
    IN  IF ~c.ok THEN Raise("ValueError", c.rest, c.eof)
        ELSE IF e.st # "ok" THEN [e EXCEPT !.eof = @ \/ c.eof]
        ELSE IF ~z.ok THEN Raise("TypeError", e.rest, c.eof \/ e.eof)
        ELSE Ok(Dict(z.d), e.rest, c.eof \/ e.eof)

(* a handle_request without the test of `not first_byte`: the empty read   *)
(* is looked up in the handlers like any other byte                        *)
handle_request_no_eof_test(buf) ==
    IF buf = <<>> THEN Raise("CommandError", buf, TRUE)
    ELSE LET first_byte == Head(buf)
             socket_file == Tail(buf)
         IN  CASE ~Decodes(<<first_byte>>) ->
                      Raise("UnicodeDecodeError", socket_file, FALSE)
               [] first_byte = "+" -> handle_simple_string(socket_file)
               [] first_byte = "-" -> handle_error_message(socket_file)
               [] first_byte = ":" -> handle_integer(socket_file)
               [] first_byte = "$" -> handle_binary(socket_file)
               [] first_byte = "*" -> handle_array(socket_file)
               [] first_byte = "%" -> handle_dictionary(socket_file)
               [] OTHER -> Raise("CommandError", socket_file, FALSE)

handle_request(buf) ==
    IF buf = <<>> THEN Raise("Disconnect", buf, TRUE)
    ELSE LET first_byte == Head(buf)
             socket_file == Tail(buf)
         IN  CASE ~Decodes(<<first_byte>>) ->
                      Raise("UnicodeDecodeError", socket_file, FALSE)
               [] first_byte = "+" -> handle_simple_string(socket_file)
               [] first_byte = "-" -> handle_error_message(socket_file)
               [] first_byte = ":" -> handle_integer(socket_file)
               [] first_byte = "$" -> handle_binary(socket_file)
               [] first_byte = "*" -> handle_array(socket_file)
               [] first_byte = "%" -> handle_dictionary(socket_file)
               [] OTHER -> Raise("CommandError", socket_file, FALSE)

-----------------------------------------------------------------------------
(* ProtocolHandler: encoding.                                              *)

(* repr(b) of a bytes object, which is what '%s' % b formats: b'...' with  *)
(* the quote, the backslash, CR and LF escaped; the quote is " when the    *)
(* bytes hold a ' and no ".                                                *)
ReprQuote(s) ==
    IF (\E i \in 1..Len(s) : s[i] = "'") /\ ~(\E i \in 1..Len(s) : s[i] = "\"")
    THEN "\"" ELSE "'"

RECURSIVE ReprBody(_, _)
ReprBody(s, quote) ==
    IF s = <<>> THEN <<>>
    ELSE (CASE s[1] = quote \/ s[1] = "\\" -> <<"\\", s[1]>>
            [] s[1] = CR -> <<"\\", "r">>
            [] s[1] = LF -> <<"\\", "n">>
            [] OTHER -> <<s[1]>>) \o ReprBody(Tail(s), quote)

BytesRepr(s) ==
    LET quote == ReprQuote(s) IN <<"b", quote>> \o ReprBody(s, quote) \o <<quote>>

RECURSIVE _write(_)
RECURSIVE WriteItems(_)

(* for item in data: self._write(buf, item)                                *)
WriteItems(items) ==
    IF items = <<>> THEN [st |-> "ok", bytes |-> <<>>]
    ELSE LET h == _write(items[1])
         IN  IF h.st # "ok" THEN h
             ELSE LET t == WriteItems(Tail(items))
                  IN  IF t.st # "ok" THEN t
                      ELSE [st |-> "ok", bytes |-> h.bytes \o t.bytes]

(* for key in data: self._write(buf, key); self._write(buf, data[key])     *)
RECURSIVE Flatten(_)
Flatten(pairs) ==
    IF pairs = <<>> THEN <<>>
    ELSE <<pairs[1][1], pairs[1][2]>> \o Flatten(Tail(pairs))

(* ProtocolHandler._write: the bytes put into the buffer, or the exception *)
_write(d) ==
    CASE d.k \in {"str", "bytes"} ->
            [st |-> "ok",
             bytes |-> <<"$">> \o IntToStr(Len(d.v)) \o CRLF \o BytesRepr(d.v) \o CRLF]
      [] d.k = "int" -> [st |-> "ok", bytes |-> <<":">> \o IntToStr(d.v) \o CRLF]
      [] d.k = "err" -> [st |-> "ok", bytes |-> <<"-">> \o d.v \o CRLF]
      [] d.k \in {"list", "tuple"} ->
            LET items == WriteItems(d.v)
            IN  IF items.st # "ok" THEN items
                ELSE [st |-> "ok",
                      bytes |-> <<"*">> \o IntToStr(Len(d.v)) \o CRLF \o items.bytes]
      [] d.k = "dict" ->
            LET items == WriteItems(Flatten(d.v))
            IN  IF items.st # "ok" THEN items
                ELSE [st |-> "ok",
                      bytes |-> <<"%">> \o IntToStr(Len(d.v)) \o CRLF \o items.bytes]
      [] d.k = "null" -> [st |-> "TypeError", bytes |-> <<>>]
      [] OTHER -> [st |-> "CommandError", bytes |-> <<>>]

(* ProtocolHandler.write_response: the bytes that reach the stream.        *)
write_response(d) == _write(d)

-----------------------------------------------------------------------------
(* Server: the command table, the store operations and get_response.       *)
(* An operation on the store `store` with the positional arguments `args`  *)
(* gives st, "ok" or the exception raised; v, the value returned; kv, the  *)
(* store it leaves.                                                        *)

LowerChars == <<"a", "b", "c", "d", "e", "f", "g", "h", "i", "j", "k", "l", "m",
                "n", "o", "p", "q", "r", "s", "t", "u", "v", "w", "x", "y", "z">>
UpperChars == <<"A", "B", "C", "D", "E", "F", "G", "H", "I", "J", "K", "L", "M",
                "N", "O", "P", "Q", "R", "S", "T", "U", "V", "W", "X", "Y", "Z">>

UpperChar(c) ==
    IF \E i \in 1..26 : LowerChars[i] = c
    THEN UpperChars[CHOOSE i \in 1..26 : LowerChars[i] = c]
    ELSE c

(* str.upper() and bytes.upper()                                           *)
Upper(s) == [i \in 1..Len(s) |-> UpperChar(s[i])]

(* the spelling kept as it is: what a dispatcher without .upper() looks up *)
NoUpper(s) == s

Normalize(s) == Upper(s)

Ret(v, store) == [st |-> "ok", v |-> v, kv |-> store]
Exc(exc, v, store) == [st |-> exc, v |-> v, kv |-> store]

get(store, args) ==
    IF Len(args) # 1 \/ ~Hashable(args[1]) THEN Exc("TypeError", Null, store)
    ELSE Ret(DictGet(store, args[1]), store)

(* a set that keeps the value a key already has                            *)
set_keeps_old(store, args) ==
    IF Len(args) # 2 \/ ~Hashable(args[1]) THEN Exc("TypeError", Null, store)
    ELSE IF DictHas(store, args[1]) THEN Ret(Integer(1), store)
    ELSE Ret(Integer(1), DictSet(store, args[1], args[2]))

set(store, args) ==
    IF Len(args) # 2 \/ ~Hashable(args[1]) THEN Exc("TypeError", Null, store)
    ELSE Ret(Integer(1), DictSet(store, args[1], args[2]))

(* a delete whose `return 1` is not under the test for the key            *)
delete_always_one(store, args) ==
    IF Len(args) # 1 \/ ~Hashable(args[1]) THEN Exc("TypeError", Null, store)
    ELSE IF DictHas(store, args[1]) THEN Ret(Integer(1), DictDel(store, args[1]))
    ELSE Ret(Integer(1), store)

delete(store, args) ==
    IF Len(args) # 1 \/ ~Hashable(args[1]) THEN Exc("TypeError", Null, store)
    ELSE IF DictHas(store, args[1]) THEN Ret(Integer(1), DictDel(store, args[1]))
    ELSE Ret(Integer(0), store)

(* a flush that takes len(self._kv) after the clear()                      *)
flush_counts_after(store, args) ==
    IF Len(args) # 0 THEN Exc("TypeError", Null, store)
    ELSE Ret(Integer(0), <<>>)

flush(store, args) ==
    IF Len(args) # 0 THEN Exc("TypeError", Null, store)
    ELSE Ret(Integer(Len(store)), <<>>)

(* an mget that leaves out the keys the store does not hold                *)
RECURSIVE FoundOnly(_, _)
FoundOnly(store, keys) ==
    IF keys = <<>> THEN <<>>
    ELSE (IF DictHas(store, keys[1]) THEN <<DictGet(store, keys[1])>> ELSE <<>>)
         \o FoundOnly(store, Tail(keys))

mget_skips_absent(store, args) ==
    IF \E i \in 1..Len(args) : ~Hashable(args[i]) THEN Exc("TypeError", Null, store)
    ELSE Ret(List(FoundOnly(store, args)), store)

mget(store, args) ==
    IF \E i \in 1..Len(args) : ~Hashable(args[i]) THEN Exc("TypeError", Null, store)
    ELSE Ret(List([i \in 1..Len(args) |-> DictGet(store, args[i])]), store)

(* for key, value in zip(items[::2], items[1::2]): self._kv[key] = value   *)
(* An unhashable key raises TypeError; the pairs before it stay stored.    *)
RECURSIVE MsetLoop(_, _)
MsetLoop(store, items) ==
    IF Len(items) < 2 THEN Ret(Integer(1), store)
    ELSE IF ~Hashable(items[1]) THEN Exc("TypeError", Null, store)
    ELSE MsetLoop(DictSet(store, items[1], items[2]), SubSeq(items, 3, Len(items)))

(* an mset that goes through the pairs from the last to the first          *)
RECURSIVE PairsReversed(_)
PairsReversed(items) ==
    IF Len(items) < 2 THEN <<>>
    ELSE PairsReversed(SubSeq(items, 3, Len(items))) \o SubSeq(items, 1, 2)

mset_last_pair_first(store, args) == MsetLoop(store, PairsReversed(args))

(* an mset that refuses an odd number of arguments                         *)
mset_rejects_odd(store, args) ==
    IF Len(args) % 2 = 1 THEN Exc("CommandError", <<"o", "d", "d">>, store)
    ELSE MsetLoop(store, args)

(* an mset that stores its first pair only                                 *)
mset_first_pair(store, args) == MsetLoop(store, SubSeq(args, 1, 2))

mset(store, args) == MsetLoop(store, args)

GET == <<"G", "E", "T">>
SET == <<"S", "E", "T">>
FLUSH == <<"F", "L", "U", "S", "H">>
DELETE == <<"D", "E", "L", "E", "T", "E">>
MGET == <<"M", "G", "E", "T">>
MSET == <<"M", "S", "E", "T">>

(* the keys of Server._commands: they are str                              *)
get_commands == {GET, SET, FLUSH, DELETE, MGET, MSET}

Call(command, store, args) ==
    CASE command = GET -> get(store, args)
      [] command = SET -> set(store, args)
      [] command = FLUSH -> flush(store, args)
      [] command = DELETE -> delete(store, args)
      [] command = MGET -> mget(store, args)
      [] command = MSET -> mset(store, args)

MsgArgument == <<"A", "r", "g", "u", "m", "e", "n", "t", " ", "m", "u", "s", "t", " ",
                 "b", "e", " ", "l", "i", "s", "t", " ", "o", "r", " ",
                 "s", "t", "r", "i", "n", "g">>
MsgNoCommand == <<"N", "o", " ", "c", "o", "m", "m", "a", "n", "d", " ",
                  "p", "r", "o", "v", "i", "d", "e", "d">>
MsgCommand == <<"C", "o", "m", "m", "a", "n", "d", " ">>
MsgNotExist == <<" ", "d", "o", "e", "s", " ", "n", "o", "t", " ", "e", "x", "i", "s", "t">>

(* 'Command %s does not exist' % command: a str as it is, bytes as repr    *)
MsgUnknown(command) ==
    MsgCommand \o (IF command.k = "bytes" THEN BytesRepr(command.v) ELSE command.v)
               \o MsgNotExist

(* Server.get_response from `command = data[0].upper()` on.  data[0] of a  *)
(* str is its first character and of bytes an int; data[1:] of a str       *)
(* unpacks into its characters.                                            *)
Lookup(store, d) ==
    IF d.k = "bytes" THEN Exc("AttributeError", Null, store)
    ELSE LET first == IF d.k = "str" THEN Str(<<d.v[1]>>) ELSE d.v[1]
             rest == IF d.k = "str" THEN [i \in 1..(Len(d.v) - 1) |-> Str(<<d.v[i + 1]>>)]
                     ELSE Tail(d.v)
         IN  IF first.k \notin {"str", "bytes"} THEN Exc("AttributeError", Null, store)
             ELSE LET command == [first EXCEPT !.v = Normalize(first.v)]
                  IN  IF ~(command.k = "str" /\ command.v \in get_commands)
                      THEN Exc("CommandError", MsgUnknown(command), store)
                      ELSE Call(command.v, store, rest)

(* a get_response that lets the failure of data.split() escape             *)
get_response_split_escapes(store, d) ==
    IF d.k # "list" /\ d.k \notin {"str", "bytes"}
    THEN Exc("AttributeError", Null, store)
    ELSE IF d.v = <<>> THEN Exc("CommandError", MsgNoCommand, store)
    ELSE Lookup(store, d)

(* Server.get_response.  A request that is no list has split() tried on    *)
(* it, which str and bytes have; the words it gives are dropped.           *)
get_response(store, d) ==
    IF d.k # "list" /\ d.k \notin {"str", "bytes"}
    THEN Exc("CommandError", MsgArgument, store)
    ELSE IF d.v = <<>> THEN Exc("CommandError", MsgNoCommand, store)
    ELSE Lookup(store, d)

-----------------------------------------------------------------------------
(* The connections and what their clients send.                            *)

MaxReq == 2                \* requests a client has answered on one connection
max_clients == 64          \* the default of Server()'s max_clients

Sessions == {1, 2}
StubSessions == {1}        \* the connections opened by a Client object

(* wire frames as a client writes them                                     *)
Simple(s) == <<"+">> \o s \o CRLF
Num(n) == <<":">> \o IntToStr(n) \o CRLF
Bulk(s) == <<"$">> \o IntToStr(Len(s)) \o CRLF \o s \o CRLF
RECURSIVE Concat(_)
Concat(ss) == IF ss = <<>> THEN <<>> ELSE ss[1] \o Concat(Tail(ss))
Arr(items) == <<"*">> \o IntToStr(Len(items)) \o CRLF \o Concat(items)

K == <<"k">>
J == <<"j">>
FOO == <<"F", "O", "O">>

StoreFrames ==
    { Arr(<<Simple(SET), Simple(K), Num(1)>>),
      Arr(<<Simple(<<"s", "e", "t">>), Simple(K), Num(2)>>),
      Arr(<<Simple(GET), Simple(K)>>),
      Arr(<<Simple(DELETE), Simple(K)>>),
      Arr(<<Simple(FLUSH)>>),
      Arr(<<Simple(MGET), Simple(K), Simple(J)>>),
      Arr(<<Simple(MSET), Simple(K), Num(3), Simple(J), Num(4)>>) }

ShapeFrames ==
    { Arr(<<Simple(<<"g", "e", "t">>), Simple(K)>>),
      Arr(<<Bulk(GET), Bulk(K)>>),
      Arr(<<Simple(FOO)>>),
      Arr(<<>>),
      <<"$", "-", "1">> \o CRLF,
      Num(5),
      <<"%", "0">> \o CRLF,
      Arr(<<Simple(GET)>>),
      Arr(<<Num(7)>>),
      Simple(<<"S", "E", "T", " ", "k", " ", "1">>),
      Arr(<<Simple(MSET), Simple(K), Num(5), Arr(<<>>), Num(6)>>),
      <<"$", "5">> \o CRLF \o <<"a", "b">>,
      <<"!">>,
      Arr(<< <<"!">> >>),
      <<"0xFF">> }

Frames(s) == IF s = 1 THEN StoreFrames \cup ShapeFrames ELSE StoreFrames

(* the argument tuples args of the calls Client.execute                    *)
Calls == { <<>>, <<Str(FOO)>>, <<Str(GET), Str(K)>> }

Running == [phase |-> "", exc |-> ""]
Idle == [st |-> "idle", v |-> Null, reply |-> <<>>]
Unknown == [k |-> "unknown", v |-> <<>>]
NoInput == [mode |-> "off", v |-> Null, b |-> <<>>]
NoWire == [st |-> "none", bytes |-> <<>>]
NoValue == [st |-> "none", v |-> Null, rest |-> <<>>, eof |-> FALSE]

-----------------------------------------------------------------------------
(* History: what the requests handed to the store wrote, read off the      *)
(* requests themselves.  `written` holds <<key, value>> for the last value *)
(* written for key by a SET or an MSET pair and not removed since by       *)
(* DELETE or FLUSH; the value is Unknown after an MSET that raised.        *)

IsCommand(d, name) ==
    d.k = "list" /\ d.v # <<>> /\ d.v[1].k = "str" /\ Upper(d.v[1].v) = name

Forget(w, key) == {p \in w : p[1] # key}

RECURSIVE WritePairs(_, _)
WritePairs(w, items) ==
    IF Len(items) < 2 THEN w
    ELSE WritePairs(Forget(w, items[1]) \cup {<<items[1], items[2]>>},
                    SubSeq(items, 3, Len(items)))

RECURSIVE TaintPairs(_, _)
TaintPairs(w, items) ==
    IF Len(items) < 2 THEN w
    ELSE TaintPairs(IF Hashable(items[1])
                    THEN Forget(w, items[1]) \cup {<<items[1], Unknown>>} ELSE w,
                    SubSeq(items, 3, Len(items)))

Record(w, d, st) ==
    CASE st = "ok" /\ IsCommand(d, SET) -> WritePairs(w, Tail(d.v))
      [] st = "ok" /\ IsCommand(d, MSET) -> WritePairs(w, Tail(d.v))
      [] st = "ok" /\ IsCommand(d, DELETE) -> Forget(w, d.v[2])
      [] st = "ok" /\ IsCommand(d, FLUSH) -> {}
      [] st # "ok" /\ IsCommand(d, MSET) -> TaintPairs(w, Tail(d.v))
      [] OTHER -> w

-----------------------------------------------------------------------------
(* The state machine.                                                      *)

Init ==
    /\ kv = <<>>
    /\ pool = {}
    /\ pc = [s \in Sessions |-> "Idle"]
    /\ data = [s \in Sessions |-> Null]
    /\ resp = [s \in Sessions |-> Null]
    /\ inbuf = [s \in Sessions |-> <<>>]
    /\ peerEof = [s \in Sessions |-> FALSE]
    /\ outbuf = [s \in Sessions |-> <<>>]
    /\ closedBy = [s \in Sessions |-> Running]
    /\ nread = [s \in Sessions |-> 0]
    /\ nwritten = [s \in Sessions |-> 0]
    /\ written = {}
    /\ client = [s \in Sessions |-> Idle]
    /\ capacity = max_clients
    /\ cin = NoInput
    /\ cwire = NoWire
    /\ cout = NoValue

codecVars == <<cin, cwire, cout>>

(* a server that spawns a handler for every connection, pool full or not   *)
AcceptUnbounded(s) ==
    /\ pc[s] = "Idle"
    /\ pool' = pool \cup {s}
    /\ pc' = [pc EXCEPT ![s] = "AwaitingRequest"]
    /\ UNCHANGED <<kv, data, resp, inbuf, peerEof, outbuf, closedBy, nread,
                   nwritten, written, client, capacity, codecVars>>

(* StreamServer accepts a connection and spawns connection_handler in the  *)
(* pool, which holds at most max_clients greenlets.                        *)
Accept(s) ==
    /\ pc[s] = "Idle"
    /\ Cardinality(pool) < capacity
    /\ pool' = pool \cup {s}
    /\ pc' = [pc EXCEPT ![s] = "AwaitingRequest"]
    /\ UNCHANGED <<kv, data, resp, inbuf, peerEof, outbuf, closedBy, nread,
                   nwritten, written, client, capacity, codecVars>>

(* A client writes one frame once the server has read all it sent before.  *)
ClientSend(s, frame) ==
    /\ pc[s] # "Idle"
    /\ ~peerEof[s]
    /\ client[s].st # "waiting"
    /\ inbuf[s] = <<>>
    /\ nread[s] < MaxReq
    /\ inbuf' = [inbuf EXCEPT ![s] = frame]
    /\ client' = [client EXCEPT ![s] = Idle]
    /\ UNCHANGED <<kv, pool, pc, data, resp, peerEof, outbuf, closedBy, nread,
                   nwritten, written, capacity, codecVars>>

(* The client shuts down its sending side: the server's reads see the end  *)
(* of the stream after the bytes already sent.  The server notices it in   *)
(* its next read only, so the shutdown is taken while the server reads.    *)
ClientShutdown(s) ==
    /\ pc[s] = "AwaitingRequest"
    /\ ~peerEof[s]
    /\ client[s].st # "waiting"
    /\ peerEof' = [peerEof EXCEPT ![s] = TRUE]
    /\ UNCHANGED <<kv, pool, pc, data, resp, inbuf, outbuf, closedBy, nread,
                   nwritten, written, client, capacity, codecVars>>

Sending(s, w) ==
    /\ w.st = "ok"
    /\ inbuf' = [inbuf EXCEPT ![s] = w.bytes]

(* Client.execute, up to the blocking read of the reply:                   *)
(* self._protocol.write_response(self._fh, args)                           *)
ClientExecute(s, args) ==
    /\ s \in StubSessions
    /\ pc[s] # "Idle"
    /\ ~peerEof[s]
    /\ client[s].st # "waiting"
    /\ inbuf[s] = <<>>
    /\ nread[s] < MaxReq
    /\ Sending(s, write_response(Tuple(args)))
    /\ client' = [client EXCEPT ![s] = [st |-> "waiting", v |-> Null, reply |-> <<>>]]
    /\ UNCHANGED <<kv, pool, pc, data, resp, peerEof, outbuf, closedBy, nread,
                   nwritten, written, capacity, codecVars>>

(* Client.execute, from the reply on: resp = handle_request(self._fh);     *)
(* raise CommandError(resp.message) if resp is an Error, else return resp. *)
(* The read blocks until a whole frame has come or the server has closed.  *)
execute_result(h) ==
    IF h.st # "ok" THEN [st |-> "raised", v |-> Str(<<>>), exc |-> h.st]
    ELSE IF h.v.k = "err" THEN [st |-> "raised", v |-> Str(h.v.v), exc |-> "CommandError"]
    ELSE [st |-> "returned", v |-> h.v, exc |-> ""]

Returned(s, h, e) ==
    /\ ~h.eof \/ pc[s] = "Closed"
    /\ client' = [client EXCEPT ![s] =
           [st |-> e.st, v |-> e.v,
            reply |-> SubSeq(outbuf[s], 1, Len(outbuf[s]) - Len(h.rest))]]
    /\ outbuf' = [outbuf EXCEPT ![s] = h.rest]

ClientReceive(s, h) == Returned(s, h, execute_result(h))

ClientReturn(s) ==
    /\ client[s].st = "waiting"
    /\ ClientReceive(s, handle_request(outbuf[s]))
    /\ UNCHANGED <<kv, pool, pc, data, resp, inbuf, peerEof, closedBy, nread,
                   nwritten, written, capacity, codecVars>>

(* One turn of connection_handler's loop up to the socket write: the frame *)
(* is read (the greenlet is suspended until the frame is whole or the      *)
(* stream has ended), get_response runs and write_response fills its       *)
(* buffer.  Disconnect leaves the loop; any other exception that is not    *)
(* the CommandError of get_response ends the greenlet.  h is what          *)
(* handle_request gave, r what get_response gave, w what _write gave.      *)
Closed(phase, exc, d, reply, store, st) ==
    [pc |-> "Closed", by |-> [phase |-> phase, exc |-> exc],
     data |-> d, resp |-> reply, kv |-> store, st |-> st]

Written(h, r, reply, w) ==
    IF w.st # "ok" THEN Closed("write", w.st, h.v, reply, r.kv, r.st)
    ELSE [pc |-> "Replying", by |-> Running,
          data |-> h.v, resp |-> reply, kv |-> r.kv, st |-> r.st]

Replied(h, r, reply) == Written(h, r, reply, write_response(reply))

Dispatched(h, r) ==
    IF r.st = "CommandError" THEN Replied(h, r, Error(r.v))
    ELSE IF r.st # "ok" THEN Closed("dispatch", r.st, h.v, Null, r.kv, r.st)
    ELSE Replied(h, r, r.v)

Decoded(h, store) ==
    IF h.st # "ok" THEN Closed("read", h.st, Null, Null, store, "")
    ELSE Dispatched(h, get_response(store, h.v))

Served(s, h, n) ==
    /\ ~h.eof \/ peerEof[s]
    /\ inbuf' = [inbuf EXCEPT ![s] = h.rest]
    /\ pc' = [pc EXCEPT ![s] = n.pc]
    /\ closedBy' = [closedBy EXCEPT ![s] = n.by]
    /\ pool' = IF n.pc = "Closed" THEN pool \ {s} ELSE pool
    /\ data' = [data EXCEPT ![s] = n.data]
    /\ resp' = [resp EXCEPT ![s] = n.resp]
    /\ kv' = n.kv
    /\ nread' = [nread EXCEPT ![s] = IF h.st = "ok" THEN @ + 1 ELSE @]
    /\ written' = IF h.st = "ok" THEN Record(written, n.data, n.st) ELSE written

Serve(s, h) == Served(s, h, Decoded(h, kv))

ServeRequest(s) ==
    /\ pc[s] = "AwaitingRequest"
    /\ Serve(s, handle_request(inbuf[s]))
    /\ UNCHANGED <<peerEof, outbuf, nwritten, client, capacity, codecVars>>

(* a loop that goes back to reading without writing the reply              *)
SkipWrite(s) ==
    /\ pc[s] = "Replying"
    /\ pc' = [pc EXCEPT ![s] = "AwaitingRequest"]
    /\ UNCHANGED <<kv, pool, data, resp, inbuf, peerEof, outbuf, closedBy, nread,
                   nwritten, written, client, capacity, codecVars>>

Deliver(s, w) ==
    outbuf' = [outbuf EXCEPT ![s] = IF client[s].st = "waiting" THEN @ \o w.bytes ELSE @]

(* socket_file.write(buf.getvalue()); socket_file.flush(), and the loop    *)
(* goes back to its read.  data and resp are dead until reassigned.        *)
WriteReply(s) ==
    /\ pc[s] = "Replying"
    /\ Deliver(s, write_response(resp[s]))
    /\ nwritten' = [nwritten EXCEPT ![s] = @ + 1]
    /\ pc' = [pc EXCEPT ![s] = "AwaitingRequest"]
    /\ data' = [data EXCEPT ![s] = Null]
    /\ resp' = [resp EXCEPT ![s] = Null]
    /\ UNCHANGED <<kv, pool, inbuf, peerEof, closedBy, nread, written, client,
                   capacity, codecVars>>

Next ==
    \E s \in Sessions :
        \/ Accept(s)
        \/ \E frame \in Frames(s) : ClientSend(s, frame)
        \/ ClientShutdown(s)
        \/ \E args \in Calls : ClientExecute(s, args)
        \/ ClientReturn(s)
        \/ ServeRequest(s)
        \/ WriteReply(s)

Spec == Init /\ [][Next]_vars

-----------------------------------------------------------------------------
(* The codec alone: a value is encoded by write_response and the bytes are *)
(* decoded by handle_request from a stream that ends after them; or bytes  *)
(* given as they are get decoded.                                          *)

Scalars ==
    { Null, Integer(0), Integer(-7), Integer(12),
      Str(<<>>), Str(<<"a">>), Str(<<"a", CR, LF, "b">>), Bytes(<<"k", "'">>),
      Error(<<"x">>) }

CodecValues ==
    Scalars
    \cup { List(<<x>>) : x \in Scalars }
    \cup { List(<<x, y>>) : x \in {Integer(12), Str(<<"a">>)}, y \in Scalars }
    \cup { Dict(<< <<Integer(1), x>> >>) : x \in Scalars }
    \cup { Dict(<< <<x, Integer(1)>>, <<Integer(2), List(<<>>)>> >>) : x \in Scalars }
    \cup { List(<<List(<<List(<<x>>)>>)>>) : x \in Scalars }
    \cup { Dict(<< <<Integer(1), List(<<Dict(<< <<Integer(2), x>> >>)>>)>> >>) : x \in Scalars }
    \cup { List(<<>>), Dict(<<>>) }

CodecBytes ==
    { <<"$", "5">> \o CRLF \o <<"a", "b">>,
      <<"$", "5">> \o CRLF \o <<"a", "b", "c", "d", "e">>,
      <<"$", "2">> \o CRLF \o <<"a", "b">> \o CRLF,
      <<"$", "2">> \o CRLF \o <<"a", CR>>,
      <<"$", "1">> \o CRLF \o <<"a", "b", "c", "d">> \o CRLF,
      <<"$", "0">> \o CRLF \o CRLF,
      <<"$", "-", "1">> \o CRLF,
      <<"$", "-", "1">> \o CRLF \o <<":", "1">> \o CRLF,
      <<"$", "-", "3">> \o CRLF \o <<"a", "b", "c">>,
      <<"$", "x">> \o CRLF,
      <<"+", "O", "K">>,
      <<":", " ", "4", "2">> \o CRLF,
      <<"*", "2">> \o CRLF \o <<":", "1">> \o CRLF,
      <<"*", "1">> \o CRLF \o <<"!">>,
      <<"%", "1">> \o CRLF \o <<"*", "0">> \o CRLF \o <<":", "1">> \o CRLF,
      <<"!">>,
      <<>> }

CodecInit ==
    /\ Init!1 /\ Init!2 /\ Init!3 /\ Init!4 /\ Init!5 /\ Init!6 /\ Init!7
    /\ Init!8 /\ Init!9 /\ Init!10 /\ Init!11 /\ Init!12 /\ Init!13 /\ Init!14
    /\ cin \in {[mode |-> "value", v |-> x, b |-> <<>>] : x \in CodecValues}
              \cup {[mode |-> "bytes", v |-> Null, b |-> x] : x \in CodecBytes}
    /\ cwire = NoWire
    /\ cout = NoValue

serverVars == <<capacity, kv, pool, pc, data, resp, inbuf, peerEof, outbuf, closedBy,
                nread, nwritten, written, client>>

CodecEncode ==
    /\ cin.mode = "value"
    /\ cwire = NoWire
    /\ cwire' = write_response(cin.v)
    /\ UNCHANGED <<serverVars, cin, cout>>

CodecDecode ==
    /\ cout = NoValue
    /\ \/ cin.mode = "value" /\ cwire.st = "ok" /\ cout' = handle_request(cwire.bytes)
       \/ cin.mode = "bytes" /\ cout' = handle_request(cin.b)
    /\ UNCHANGED <<serverVars, cin, cwire>>

CodecNext == CodecEncode \/ CodecDecode

CodecSpec == CodecInit /\ [][CodecNext]_vars

-----------------------------------------------------------------------------
(* The store commands alone: one session, accepted by a server whose store *)
(* earlier sessions have filled, is sent commands one after the other.     *)

I == <<"i">>

StoreStates ==
    { <<>>,
      << <<Str(K), Integer(1)>> >>,
      << <<Str(J), Integer(2)>> >>,
      << <<Str(K), Integer(1)>>, <<Str(J), Integer(2)>> >>,
      << <<Str(J), Str(<<"v">>)>>, <<Integer(7), Null>>, <<Str(K), List(<<>>)>> >> }

CommandFrames ==
    { Arr(<<Simple(GET), Simple(K)>>),
      Arr(<<Simple(GET), Simple(I)>>),
      Arr(<<Simple(SET), Simple(K), Num(5)>>),
      Arr(<<Simple(DELETE), Simple(K)>>),
      Arr(<<Simple(DELETE), Num(7)>>),
      Arr(<<Simple(DELETE), Simple(I)>>),
      Arr(<<Simple(FLUSH)>>),
      Arr(<<Simple(MGET)>>),
      Arr(<<Simple(MGET), Simple(K)>>),
      Arr(<<Simple(MGET), Simple(J), Simple(K), Simple(J)>>),
      Arr(<<Simple(MGET), Simple(K), Simple(I), Simple(K)>>),
      Arr(<<Simple(MSET)>>),
      Arr(<<Simple(MSET), Simple(I), Num(3)>>),
      Arr(<<Simple(MSET), Simple(K), Num(3), Simple(J), Num(4)>>),
      Arr(<<Simple(MSET), Simple(K), Num(3), Simple(I), Num(4), Simple(K), Num(5)>>),
      Arr(<<Simple(MSET), Simple(I)>>),
      Arr(<<Simple(MSET), Simple(K), Num(3), Simple(I)>>),
      Arr(<<Simple(MSET), Simple(I), Num(3), Simple(K), Num(4), Simple(J)>>) }

Pairs(store) == {store[i] : i \in 1..Len(store)}

StoreInit ==
    /\ kv \in StoreStates
    /\ written = Pairs(kv)
    /\ pool = {1}
    /\ pc = [s \in Sessions |-> IF s = 1 THEN "AwaitingRequest" ELSE "Idle"]
    /\ Init!4 /\ Init!5 /\ Init!6 /\ Init!7 /\ Init!8 /\ Init!9 /\ Init!10
    /\ Init!11 /\ Init!13 /\ Init!14 /\ Init!15 /\ Init!16 /\ Init!17

StoreNext ==
    \/ \E frame \in CommandFrames : ClientSend(1, frame)
    \/ ServeRequest(1)
    \/ WriteReply(1)

StoreSpec == StoreInit /\ [][StoreNext]_vars

-----------------------------------------------------------------------------
(* The pool: a server constructed with a small max_clients.  The hub       *)
(* starts accepting again when a greenlet of a full pool ends, which is    *)
(* the fairness of Accept.                                                 *)

PoolSizes == {1, 2}

PoolFrames ==
    { Arr(<<Simple(SET), Simple(K), Num(1)>>),
      Arr(<<Simple(GET)>>),
      <<"!">> }

PoolInit ==
    /\ Init!1 /\ Init!2 /\ Init!3 /\ Init!4 /\ Init!5 /\ Init!6 /\ Init!7
    /\ Init!8 /\ Init!9 /\ Init!10 /\ Init!11 /\ Init!12 /\ Init!13
    /\ capacity \in PoolSizes
    /\ Init!15 /\ Init!16 /\ Init!17

PoolNext ==
    \E s \in Sessions :
        \/ Accept(s)
        \/ \E frame \in PoolFrames : ClientSend(s, frame)
        \/ ClientShutdown(s)
        \/ ServeRequest(s)
        \/ WriteReply(s)

PoolSpec == PoolInit /\ [][PoolNext]_vars /\ WF_vars(\E s \in Sessions : Accept(s))

-----------------------------------------------------------------------------
(* Properties.                                                             *)

(* the step in which session s decodes a request and hands it to           *)
(* get_response: afterwards data[s] is the request and resp[s] the reply   *)
Handled(s) == pc[s] = "AwaitingRequest" /\ nread'[s] = nread[s] + 1

LastWritten(w, key) ==
    IF \E p \in w : p[1] = key THEN (CHOOSE p \in w : p[1] = key)[2] ELSE Null

(* str.split(): the words between runs of whitespace                       *)
RECURSIVE Split(_, _)
Split(text, word) ==
    IF text = <<>> THEN (IF word = <<>> THEN <<>> ELSE <<Str(word)>>)
    ELSE IF text[1] \in Whitespace
         THEN (IF word = <<>> THEN <<>> ELSE <<Str(word)>>) \o Split(Tail(text), <<>>)
         ELSE Split(Tail(text), Append(word, text[1]))

(* the reply and the store get_response gives for request d on `store`     *)
Answer(store, d) == Dispatched(Ok(d, <<>>, FALSE), get_response(store, d))

(* C1: every value of a supported kind is encoded without error, and       *)
(* decoding the bytes gives the value back and consumes exactly the bytes  *)
(* that were written.                                                      *)
C1_RoundTrip ==
    cin.mode = "value" =>
        /\ cwire.st \in {"none", "ok"}
        /\ cout.st # "none" => cout = Ok(cin.v, <<>>, FALSE)

(* C2: a GET of key k returns the value of the last SET or MSET pair for k *)
(* that no DELETE of k and no FLUSH followed, and None when there is none; *)
(* it raises nothing and leaves the store as it is.  A SET returns 1.      *)
(* Keys are the hashable values a store can hold.                          *)
C2_GetReturnsLastWrite ==
    [][\A s \in Sessions :
          Handled(s) =>
            /\ ( IsCommand(data'[s], GET) /\ Len(data'[s].v) = 2
                 /\ Hashable(data'[s].v[2])
                 /\ LastWritten(written, data'[s].v[2]) # Unknown )
               => /\ resp'[s] = LastWritten(written, data'[s].v[2])
                  /\ kv' = kv
                  /\ closedBy'[s].phase # "dispatch"
            /\ ( IsCommand(data'[s], SET) /\ Len(data'[s].v) = 3
                 /\ Hashable(data'[s].v[2]) )
               => /\ resp'[s] = Integer(1)
                  /\ closedBy'[s] = Running]_vars

C2_Witness ==
    \E s \in Sessions :
        /\ pc[s] = "Replying"
        /\ IsCommand(data[s], GET)
        /\ resp[s] = Integer(2)
        /\ nread[s] = 2

(* C3: a session is closed only by Disconnect or by a frame that cannot be *)
(* decoded; no exception of get_response or of the reply ends it.          *)
C3_OnlyReadsClose == \A s \in Sessions : closedBy[s].phase \in {"", "read"}

(* what a session shows of an answer: reply, store, position, closing      *)
SameAs(a) == <<a.resp, a.kv, a.pc, a.by>>

(* C4: a request whose first argument is text is answered as the request   *)
(* with that argument in upper case is; when the upper-case name is no key *)
(* of the command table the reply is the Error 'Command <X> does not       *)
(* exist', the store stays as it is and the session goes on to reply.      *)
C4_CaseInsensitiveDispatch ==
    [][\A s \in Sessions :
          ( Handled(s) /\ data'[s].k = "list" /\ data'[s].v # <<>>
            /\ data'[s].v[1].k \in {"str", "bytes"} )
          => /\ <<resp'[s], kv', pc'[s], closedBy'[s]>>
                    = SameAs(Answer(kv, [data'[s] EXCEPT !.v[1].v = Upper(@)]))
             /\ LET name == data'[s].v[1]
                IN  ~(name.k = "str" /\ Upper(name.v) \in {GET, SET, FLUSH, DELETE, MGET, MSET})
                    => /\ resp'[s] = Error(MsgCommand
                              \o (IF name.k = "str" THEN Upper(name.v)
                                  ELSE BytesRepr(Upper(name.v)))
                              \o MsgNotExist)
                       /\ kv' = kv
                       /\ pc'[s] = "Replying"]_vars

C4_Witness ==
    \E s \in Sessions :
        /\ pc[s] = "Replying"
        /\ data[s] = List(<<Str(<<"g", "e", "t">>), Str(K)>>)
        /\ resp[s] = Integer(1)

(* C5: in every state, which is every store a session can observe, the     *)
(* store holds for each key the value of the last whole operation that     *)
(* wrote it, so no MSET is seen with some of its pairs and no FLUSH with   *)
(* some of its keys; after SETs of one key by two sessions the store holds *)
(* one of the two values.  An MSET that raised is not covered.             *)
C5_StoreOpsAtomic ==
    /\ \A key \in {kv[i][1] : i \in 1..Len(kv)} \cup {p[1] : p \in written} :
           \/ LastWritten(written, key) = Unknown
           \/ /\ DictGet(kv, key) = LastWritten(written, key)
              /\ DictHas(kv, key) <=> \E p \in written : p[1] = key
    /\ \A s, t \in Sessions :
           ( s # t /\ pc[s] = "Replying" /\ pc[t] = "Replying"
             /\ IsCommand(data[s], SET) /\ IsCommand(data[t], SET)
             /\ Len(data[s].v) = 3 /\ Len(data[t].v) = 3
             /\ data[s].v[2] = data[t].v[2] /\ Hashable(data[s].v[2]) )
           => DictGet(kv, data[s].v[2]) \in {data[s].v[3], data[t].v[3]}

C5_Witness ==
    \E s, t \in Sessions :
        /\ s # t
        /\ pc[s] = "Replying" /\ IsCommand(data[s], MSET) /\ resp[s] = Integer(1)
        /\ pc[t] = "Replying" /\ IsCommand(data[t], MGET)
        /\ resp[t] = List(<<Integer(3), Integer(4)>>)

(* C6: a session reads a request only when every reply it owes has been    *)
(* written, and the reply it writes is the reply to the request it decoded *)
(* last: the i-th reply answers the i-th request.                          *)
C6_InOrderPerSession ==
    [][\A s \in Sessions :
          /\ (nread'[s] # nread[s] \/ Len(inbuf'[s]) < Len(inbuf[s]))
             => nwritten[s] = nread[s]
          /\ nwritten'[s] # nwritten[s]
             => /\ nwritten'[s] = nwritten[s] + 1
                /\ nwritten'[s] = nread[s]
                /\ pc[s] = "Replying"]_vars

C6_Witness ==
    \E s \in Sessions :
        /\ pc[s] = "Replying"
        /\ inbuf[s] # <<>>
        /\ nread[s] = 2
        /\ nwritten[s] = 1

(* C7: decoding a '$' frame that declares n >= 0 bytes from a stream that  *)
(* ends before n bytes fails, and a decoded payload has the declared       *)
(* length.                                                                 *)
C7_TruncatedBulkFails ==
    ( cin.mode = "bytes" /\ cout.st # "none" /\ cin.b # <<>> /\ cin.b[1] = "$"
      /\ ReadNumber(Tail(cin.b)).ok /\ ReadNumber(Tail(cin.b)).n >= 0 )
    => /\ Len(ReadNumber(Tail(cin.b)).rest) < ReadNumber(Tail(cin.b)).n => cout.st # "ok"
       /\ cout.st = "ok" => Len(cout.v.v) = ReadNumber(Tail(cin.b)).n

(* C8: Client.execute returns a value only when the reply frame it decoded *)
(* is not an error frame.                                                  *)
C8_ClientRaisesOnError ==
    \A s \in Sessions :
        client[s].st = "returned" => client[s].reply # <<>> /\ client[s].reply[1] # "-"

(* C9: a request that is a text of words is answered as the list of its    *)
(* words is, with the same reply and the same store.                       *)
C9_TextCommandSplit ==
    [][\A s \in Sessions :
          (Handled(s) /\ data'[s].k = "str" /\ Split(data'[s].v, <<>>) # <<>>)
          => /\ resp'[s] = Answer(kv, List(Split(data'[s].v, <<>>))).resp
             /\ kv' = Answer(kv, List(Split(data'[s].v, <<>>))).kv]_vars

(* C10: a request that is None, an int or a dict is answered with the      *)
(* Error 'Argument must be list or string' and an empty list with the      *)
(* Error 'No command provided'; the store stays as it is, the reply is     *)
(* written and the session awaits the next request.                        *)
C10_ShapeErrorsReplied ==
    [][\A s \in Sessions :
          /\ (Handled(s) /\ data'[s].k \in {"null", "int", "dict"})
             => /\ resp'[s] = Error(MsgArgument)
                /\ kv' = kv
                /\ pc'[s] = "Replying"
          /\ (Handled(s) /\ data'[s] = List(<<>>))
             => /\ resp'[s] = Error(MsgNoCommand)
                /\ kv' = kv
                /\ pc'[s] = "Replying"
          /\ (pc[s] = "Replying" /\ resp[s].k = "err" /\ pc'[s] # "Replying")
             => /\ pc'[s] = "AwaitingRequest"
                /\ nwritten'[s] = nwritten[s] + 1
                /\ closedBy'[s] = Running]_vars

C10_Witness ==
    \E s \in Sessions :
        /\ pc[s] = "Replying"
        /\ data[s] = Null
        /\ resp[s] = Error(MsgArgument)
        /\ kv # <<>>

-----------------------------------------------------------------------------
(* The store commands (StoreSpec).  The keys are the hashable values a     *)
(* store can hold; the reply is the value connection_handler has in resp.  *)

Args(d) == Tail(d.v)
Keys(store) == {store[i][1] : i \in 1..Len(store)}
Stored(store, key) == LastWritten(Pairs(store), key)

(* the step in which session s serves command `name` on well-typed keys    *)
Serves(s, name) ==
    /\ Handled(s)
    /\ IsCommand(data'[s], name)

(* C11: DELETE k replies 1 exactly when k is a key of the store before it  *)
(* and 0 otherwise; afterwards k is no key and every other key has the     *)
(* value it had.  With no write of k since the last DELETE of k or FLUSH   *)
(* the reply is 0.  The reply is written and the session goes on.          *)
C11_DeleteReportsPresence ==
    [][\A s \in Sessions :
          ( Serves(s, DELETE) /\ Len(Args(data'[s])) = 1
            /\ Hashable(Args(data'[s])[1]) )
          => LET key == Args(data'[s])[1]
             IN  /\ resp'[s] = Integer(IF key \in Keys(kv) THEN 1 ELSE 0)
                 /\ key \notin Keys(kv')
                 /\ Keys(kv') = Keys(kv) \ {key}
                 /\ \A q \in Keys(kv') : Stored(kv', q) = Stored(kv, q)
                 /\ (\A w \in written : w[1] # key) => resp'[s] = Integer(0)
                 /\ pc'[s] = "Replying"]_vars

C11_Witness ==
    \E s \in Sessions :
        /\ pc[s] = "Replying"
        /\ data[s] = List(<<Str(DELETE), Str(K)>>)
        /\ resp[s] = Integer(1)
        /\ Keys(kv) = {Str(J)}
        /\ nread[s] = 2

(* C12: FLUSH replies the number of distinct keys the store holds before   *)
(* it (0 for the empty store) and leaves the store empty; a GET of a key   *)
(* not written since then returns None.                                    *)
C12_FlushCountsAndEmpties ==
    [][\A s \in Sessions :
          /\ (Serves(s, FLUSH) /\ Args(data'[s]) = <<>>)
             => /\ resp'[s] = Integer(Cardinality(Keys(kv)))
                /\ kv' = <<>>
                /\ written' = {}
                /\ pc'[s] = "Replying"
          /\ ( Serves(s, GET) /\ Len(Args(data'[s])) = 1
               /\ Hashable(Args(data'[s])[1])
               /\ \A w \in written : w[1] # Args(data'[s])[1] )
             => /\ resp'[s] = Null
                /\ kv' = kv]_vars

(* a FLUSH of a store of three keys, as a session's second command         *)
C12_Witness ==
    \E s \in Sessions :
        /\ pc[s] = "Replying"
        /\ data[s] = List(<<Str(FLUSH)>>)
        /\ resp[s] = Integer(3)
        /\ nread[s] = 2
        /\ kv = <<>>

(* C13: MGET k1..kn (n >= 0) returns a list of n results, the i-th the     *)
(* value stored for ki, which is what GET ki returns, and None when ki is  *)
(* no key; a key given twice is looked up twice; the store stays as it is. *)
C13_MgetIsPerKeyGet ==
    [][\A s \in Sessions :
          ( Serves(s, MGET)
            /\ \A i \in 1..Len(Args(data'[s])) : Hashable(Args(data'[s])[i]) )
          => LET keys == Args(data'[s])
             IN  /\ resp'[s].k = "list"
                 /\ Len(resp'[s].v) = Len(keys)
                 /\ \A i \in 1..Len(keys) :
                        /\ resp'[s].v[i] = Stored(kv, keys[i])
                        /\ resp'[s].v[i] = get(kv, <<keys[i]>>).v
                 /\ kv' = kv]_vars

(* MGET k i k on a store that holds k and not i                            *)
C13_Witness ==
    \E s \in Sessions :
        /\ data[s] = List(<<Str(MGET), Str(K), Str(I), Str(K)>>)
        /\ resp[s] = List(<<Integer(5), Null, Integer(5)>>)
        /\ nread[s] = 2

(* SET(k1, v1), ..., SET(kn, vn) one after the other                       *)
RECURSIVE SetEach(_, _)
SetEach(store, items) ==
    IF Len(items) < 2 THEN store
    ELSE SetEach(set(store, SubSeq(items, 1, 2)).kv, SubSeq(items, 3, Len(items)))

PairKeysHashable(items) ==
    \A i \in 1..(Len(items) \div 2) : Hashable(items[2 * i - 1])

(* the value of the last of the first n pairs of items whose key is `key`  *)
HasPair(items, n, key) == \E i \in 1..n : items[2 * i - 1] = key
LastPair(items, n, key) ==
    items[2 * (CHOOSE i \in 1..n :
                  /\ items[2 * i - 1] = key
                  /\ \A j \in (i + 1)..n : items[2 * j - 1] # key)]

(* C14: MSET with an even number of arguments (0 pairs included) replies 1 *)
(* and leaves the store as SET(k1, v1), ..., SET(kn, vn) in that order     *)
(* leave it: a key has the value of the last pair that names it, and a key *)
(* no pair names has the value it had.                                     *)
C14_MsetIsSetsInOrder ==
    [][\A s \in Sessions :
          ( Serves(s, MSET) /\ Len(Args(data'[s])) % 2 = 0
            /\ PairKeysHashable(Args(data'[s])) )
          => LET items == Args(data'[s])
                 n == Len(items) \div 2
             IN  /\ resp'[s] = Integer(1)
                 /\ kv' = SetEach(kv, items)
                 /\ Keys(kv') = Keys(kv) \cup {items[2 * i - 1] : i \in 1..n}
                 /\ \A q \in Keys(kv') :
                        Stored(kv', q) = IF HasPair(items, n, q)
                                         THEN LastPair(items, n, q)
                                         ELSE Stored(kv, q)
                 /\ pc'[s] = "Replying"]_vars

(* MSET k 3 i 4 k 5 on a store that holds j                                *)
C14_Witness ==
    \E s \in Sessions :
        /\ pc[s] = "Replying"
        /\ IsCommand(data[s], MSET)
        /\ Len(Args(data[s])) = 6
        /\ Stored(kv, Str(K)) = Integer(5)
        /\ Stored(kv, Str(I)) = Integer(4)
        /\ Str(J) \in Keys(kv)

(* C19: MSET with an odd number m of arguments stores the first m \div 2   *)
(* pairs as SETs in order, replies 1 and no error, and does nothing for    *)
(* the last argument: as a key it is neither added nor given a value,      *)
(* unless one of the pairs names it.                                       *)
C19_MsetOddTruncates ==
    [][\A s \in Sessions :
          ( Serves(s, MSET) /\ Len(Args(data'[s])) % 2 = 1
            /\ PairKeysHashable(Args(data'[s])) )
          => LET items == Args(data'[s])
                 n == Len(items) \div 2
                 last == items[Len(items)]
             IN  /\ resp'[s] = Integer(1)
                 /\ kv' = SetEach(kv, SubSeq(items, 1, 2 * n))
                 /\ ~HasPair(items, n, last)
                    => /\ (last \in Keys(kv')) = (last \in Keys(kv))
                       /\ Stored(kv', last) = Stored(kv, last)
                 /\ pc'[s] = "Replying"]_vars

(* MSET i 3 k 4 j on a store that holds j                                  *)
C19_Witness ==
    \E s \in Sessions :
        /\ pc[s] = "Replying"
        /\ data[s] = List(<<Str(MSET), Str(I), Integer(3), Str(K), Integer(4), Str(J)>>)
        /\ resp[s] = Integer(1)
        /\ kv = << <<Str(J), Integer(2)>>, <<Str(I), Integer(3)>>, <<Str(K), Integer(4)>> >>

-----------------------------------------------------------------------------
(* The pool (PoolSpec).                                                    *)

Live == {s \in Sessions : pc[s] \in {"AwaitingRequest", "Replying"}}

(* C15: never more than max_clients sessions are live; a connection is     *)
(* taken only while fewer are; a session that ends, by Disconnect or by an *)
(* exception, gives its slot back; and a connection waiting when a session *)
(* has ended is served in the end.                                         *)
C15_PoolBound ==
    /\ [](Cardinality(Live) <= capacity /\ pool = Live)
    /\ [][\A s \in Sessions :
             /\ (pc[s] = "Idle" /\ pc'[s] # "Idle") => Cardinality(Live) < capacity
             /\ (pc[s] # "Closed" /\ pc'[s] = "Closed")
                => (s \in pool /\ pool' = pool \ {s})]_vars
    /\ \A s \in Sessions :
          (pc[s] = "Idle" /\ \E t \in Sessions : pc[t] = "Closed")
              ~> (pc[s] # "Idle")

(* a pool of one slot: a session ended by an exception, and the connection *)
(* that could not be taken while it ran is being served                    *)
C15_Witness ==
    /\ capacity = 1
    /\ \E s, t \in Sessions :
          /\ pc[t] = "Closed"
          /\ closedBy[t].exc = "TypeError"
          /\ pc[s] = "Replying"
          /\ pool = {s}

-----------------------------------------------------------------------------
(* The ends of a session (Spec).                                           *)

(* session s takes a step of its loop                                      *)
Reads(s) ==
    /\ pc[s] = "AwaitingRequest"
    /\ pc'[s] # "AwaitingRequest" \/ nread'[s] # nread[s]

(* C16: a session that awaits a request and finds the stream at its end,   *)
(* with no byte for the tag, ends by Disconnect, which is not the error of *)
(* a bad frame: it decodes no request, writes nothing and leaves the store *)
(* as it is.                                                               *)
C16_PeerClosedIsClean ==
    [][\A s \in Sessions :
          (Reads(s) /\ inbuf[s] = <<>> /\ peerEof[s])
          => /\ pc'[s] = "Closed"
             /\ closedBy'[s] = [phase |-> "read", exc |-> "Disconnect"]
             /\ s \notin pool'
             /\ nread'[s] = nread[s]
             /\ nwritten'[s] = nwritten[s]
             /\ outbuf'[s] = outbuf[s]
             /\ kv' = kv
             /\ written' = written]_vars

(* the peer closes after two requests that were answered                   *)
C16_Witness ==
    \E s \in Sessions :
        /\ pc[s] = "Closed"
        /\ closedBy[s] = [phase |-> "read", exc |-> "Disconnect"]
        /\ peerEof[s]
        /\ nread[s] = 2
        /\ nwritten[s] = 2
        /\ kv # <<>>

Tags == {"+", "-", ":", "$", "*", "%"}

(* the frame that starts buf has a byte that is no tag where its tag, or   *)
(* the tag of the first element nested in it, is read                      *)
RECURSIVE BadTag(_)
BadTag(buf) ==
    /\ buf # <<>>
    /\ \/ Head(buf) \notin Tags
       \/ /\ Head(buf) \in {"*", "%"}
          /\ ReadNumber(Tail(buf)).ok
          /\ ReadNumber(Tail(buf)).n > 0
          /\ BadTag(ReadNumber(Tail(buf)).rest)

(* C20: a frame with a byte that is no tag where a tag is read, at the top *)
(* or nested, makes the decode fail with CommandError('bad request'); the  *)
(* session writes no reply for it, leaves the store as it is and ends.     *)
C20_BadTagIsBadRequest ==
    [][\A s \in Sessions :
          (Reads(s) /\ BadTag(inbuf[s]))
          => /\ pc'[s] = "Closed"
             /\ closedBy'[s] = [phase |-> "read", exc |-> "CommandError"]
             /\ nwritten'[s] = nwritten[s]
             /\ outbuf'[s] = outbuf[s]
             /\ kv' = kv]_vars

-----------------------------------------------------------------------------
(* Bulk strings and None on the wire (CodecSpec).                          *)

NullFrame == <<"$", "-", "1">> \o CRLF

StartsWith(buf, prefix) ==
    Len(buf) >= Len(prefix) /\ SubSeq(buf, 1, Len(prefix)) = prefix

(* C17: None is encoded, without error, as the five bytes $-1 CR LF, and a *)
(* '$' frame of length -1 decodes to None with the bytes after its length  *)
(* line left unread.                                                       *)
C17_NullFraming ==
    /\ (cin.mode = "value" /\ cin.v = Null /\ cwire # NoWire)
       => cwire = [st |-> "ok", bytes |-> NullFrame]
    /\ (cin.mode = "bytes" /\ StartsWith(cin.b, NullFrame) /\ cout # NoValue)
       => cout = Ok(Null, SubSeq(cin.b, 6, Len(cin.b)), FALSE)

(* C18: a '$' frame of declared length n >= 0 followed by n bytes and CR   *)
(* LF decodes to those n bytes and leaves the stream after the CR LF; when *)
(* the two bytes after the n bytes are not CR LF the decode fails.         *)
C18_BulkFramingChecked ==
    ( cin.mode = "bytes" /\ cin.b # <<>> /\ Head(cin.b) = "$" /\ cout # NoValue
      /\ ReadNumber(Tail(cin.b)).ok /\ ReadNumber(Tail(cin.b)).n >= 0
      /\ Len(ReadNumber(Tail(cin.b)).rest) >= ReadNumber(Tail(cin.b)).n + 2 )
    => LET n == ReadNumber(Tail(cin.b)).n
           body == ReadNumber(Tail(cin.b)).rest
       IN  IF SubSeq(body, n + 1, n + 2) = CRLF
           THEN cout = Ok(Bytes(SubSeq(body, 1, n)), SubSeq(body, n + 3, Len(body)), FALSE)
           ELSE cout.st # "ok"

====
